---- MODULE Spec2Model ----
(***************************************************************************)
(* Model of src/tts_manager.py: the EmotionFeedbackManager (compliment     *)
(* cooldown / confidence / stability decision, no-face throttle, emotion   *)
(* tracking) together with the TTSManager speech queue it feeds.           *)
(*                                                                         *)
(* Time is the value of time.time(), counted in tenths of a second.        *)
(* Confidence is counted in hundredths (0.6 is 60).                        *)
(*                                                                         *)
(* Spec is the feedback manager driven by the frame loop, with a           *)
(* TTSManager whose engine failed to initialise (speak_async declines      *)
(* every text); the manager never reads the state of the TTSManager.       *)
(***************************************************************************)
EXTENDS Integers, Sequences, FiniteSets, TLC

\* ------------------------------------------------------------------------
\* Program constants
\* ------------------------------------------------------------------------
COMPLIMENT_COOLDOWN == 8
NO_FACE_COOLDOWN == 5
STABILITY_THRESHOLD == 1
CONFIDENCE_FLOOR == 60
MIN_CONFIDENCE_FOR_COMPLIMENT == 70
BATTERY_SAVER_COOLDOWN == 15
PRUNE_AGE == 1
QUEUE_MAXSIZE == 5
QUEUE_BACKLOG == 3
NUM_NO_FACE_MESSAGES == 4

\* ------------------------------------------------------------------------
\* Bounds of the model
\* ------------------------------------------------------------------------
\* time.time() when the manager is constructed (an epoch reading, far
\* beyond either cooldown), in tenths of a second
T0 == 1000
\* longest time, in tenths, that passes between the two clock reads of one
\* give_compliment call
MaxLatency == 1
\* messages per catalog entry
CatalogSize == 2
MaxTexts == 5
MaxFaces == 2
\* ages (tenths of a second) beyond which a time stamp is no longer told
\* apart; larger than every duration the code compares an age with
Horizon == 90

\* seconds to clock ticks
Seconds(s) == s * 10

\* The instants (tenths of a second after T0) at which the clock is read.
Instants == {0, 1, 10, 11, 21, 30, 40, 51, 90, 100}

\* Labels the frame loop hands to the manager, and the catalog keys kept
\* (the catalog has one entry of the same shape for each of its seven keys).
Labels == {"happy", "sad"}
CatalogKeys == {"happy", "sad", "neutral"}
Confidences == {0, 50, 59, 60, 90}

None == <<>>
EmptyMap == [l \in {} |-> 0]

COMPLIMENTS == [k \in CatalogKeys |-> {<<k, i>> : i \in 1..CatalogSize}]
NoFaceMessages == {<<"noface", i>> : i \in 1..NUM_NO_FACE_MESSAGES}

VARIABLES
    clock,                       \* time.time()
    last_compliment_time,
    last_no_face_message_time,
    consecutive_emotions,        \* dict: label -> time first seen
    last_emotion_change_time,
    available,                   \* TTSManager.available
    is_running,                  \* TTSManager.is_running
    speech_queue,                \* TTSManager.speech_queue
    worker,                      \* position of the _speech_worker thread
    op,                          \* the call made last
    args,                        \* its arguments
    ret,                         \* its return value
    compliment_times,            \* clock readings of the calls that returned a compliment
    script,                      \* the calls made since construction, while they follow a scenario
    frame,                       \* position of the frame loop inside a TTSManager call
    current,                     \* the text the worker is speaking
    spoken,                      \* texts the worker has started to speak
    dropped,                     \* texts cleared from the queue
    next_id,                     \* number of the next text handed to speak_async
    detected,                    \* what the last detect_emotions call returned
    catalog,                     \* COMPLIMENTS as config.py defines it
    AudioConfig_COMPLIMENT_COOLDOWN,
    failed,                      \* texts whose speech call raised
    done,                        \* texts for which task_done() was called
    late,                        \* texts the worker started to speak after is_running became False
    stop_pending                 \* texts that were queued when stop set is_running to False

vars == <<clock, last_compliment_time, last_no_face_message_time,
          consecutive_emotions, last_emotion_change_time,
          available, is_running, speech_queue, worker,
          op, args, ret, compliment_times, script,
          frame, current, spoken, dropped, next_id, detected,
          catalog, AudioConfig_COMPLIMENT_COOLDOWN,
          failed, done, late, stop_pending>>

feedback == <<last_compliment_time, last_no_face_message_time,
              consecutive_emotions, last_emotion_change_time>>
tts == <<available, is_running, speech_queue, worker>>
speech == <<frame, current, spoken, dropped, next_id>>
settings == <<catalog, AudioConfig_COMPLIMENT_COOLDOWN>>
history == <<failed, done, late, stop_pending>>

\* ------------------------------------------------------------------------
\* Scenarios: calls <<operation, arguments, tenths of a second after T0>>
\* ------------------------------------------------------------------------
ScenarioA ==
    << <<"give_compliment", <<"happy", 90>>, 0>>,
       <<"give_compliment", <<"happy", 90>>, 10>>,
       <<"give_compliment", <<"happy", 90>>, 21>>,
       <<"give_compliment", <<"happy", 90>>, 30>> >>

ScenarioB ==
    << <<"give_compliment", <<"sad", 50>>, 0>>,
       <<"give_compliment", <<"sad", 90>>, 1>> >>

ScenarioC ==
    << <<"handle_no_face_detected", <<>>, 0>>,
       <<"handle_no_face_detected", <<>>, 40>>,
       <<"handle_no_face_detected", <<>>, 51>> >>

Scenarios == {ScenarioA, ScenarioB, ScenarioC}

Off == << <<"off">> >>
Calls(sc) == [i \in 1..Len(sc) |-> <<sc[i][1], sc[i][2], sc[i][3]>>]
Returns(sc) == [i \in 1..Len(sc) |-> sc[i][4]]
IsPrefix(p, q) == Len(p) <= Len(q) /\ \A i \in 1..Len(p) : p[i] = q[i]

\* the script after the call o(a) made at time t returned r
Follow(o, a, t, r) ==
    IF script = Off THEN Off
    ELSE IF \E sc \in Scenarios : IsPrefix(Append(Calls(script), <<o, a, t - T0>>), sc)
    THEN Append(script, <<o, a, t - T0, r>>)
    ELSE Off

\* ------------------------------------------------------------------------
\* TTSManager
\* ------------------------------------------------------------------------
Idle == <<"idle">>
Range(q) == {q[i] : i \in 1..Len(q)}

\* self.speech_queue.qsize() > 3
backlog_never(qsize) ==
    FALSE
backlog(qsize) ==
    qsize > QUEUE_BACKLOG

\* self.speech_queue.put(text, block=False): <<queued, queue afterwards>>
put_nowait_small(text, q) ==
    IF Len(q) >= QUEUE_BACKLOG THEN <<FALSE, q>> ELSE <<TRUE, Append(q, text)>>
put_nowait(text, q) ==
    IF Len(q) >= QUEUE_MAXSIZE THEN <<FALSE, q>> ELSE <<TRUE, Append(q, text)>>

\* speak_async: <<returned flag, queue afterwards>>; an empty text is blank
speak_async_ignores_available(text, q) ==
    IF text = None THEN <<FALSE, q>>
    ELSE put_nowait(text, IF backlog(Len(q)) THEN <<>> ELSE q)
speak_async(text, q) ==
    IF text = None THEN <<FALSE, q>>
    ELSE IF ~available THEN <<FALSE, q>>
    ELSE put_nowait(text, IF backlog(Len(q)) THEN <<>> ELSE q)

\* ------------------------------------------------------------------------
\* EmotionFeedbackManager
\* ------------------------------------------------------------------------
Tracked == DOMAIN consecutive_emotions

\* "Check cooldown": time_since_last < COMPLIMENT_COOLDOWN
cooldown_blocks_wrong_constant(current_time) ==
    current_time - last_compliment_time < Seconds(NO_FACE_COOLDOWN)
cooldown_blocks_reads_preset(current_time) ==
    current_time - last_compliment_time < Seconds(AudioConfig_COMPLIMENT_COOLDOWN)
cooldown_blocks_at_boundary(current_time) ==
    current_time - last_compliment_time <= Seconds(COMPLIMENT_COOLDOWN)
cooldown_blocks(current_time) ==
    current_time - last_compliment_time < Seconds(COMPLIMENT_COOLDOWN)

\* "Check confidence threshold": confidence < 0.6
low_confidence_unchecked(confidence) ==
    FALSE
low_confidence_rejects_invalid(confidence) ==
    confidence < CONFIDENCE_FLOOR \/ confidence > 100
low_confidence(confidence) ==
    confidence < CONFIDENCE_FLOOR

\* self.consecutive_emotions[emotion] = current_time
start_tracking_from_oldest(emotion, current_time) ==
    [l \in Tracked \cup {emotion} |->
        IF l # emotion THEN consecutive_emotions[l]
        ELSE IF Tracked = {} THEN current_time
        ELSE CHOOSE t \in {consecutive_emotions[o] : o \in Tracked} :
                 \A o \in Tracked : t <= consecutive_emotions[o]]
start_tracking(emotion, current_time) ==
    [l \in Tracked \cup {emotion} |->
        IF l = emotion THEN current_time ELSE consecutive_emotions[l]]

\* emotion_duration >= self.emotion_stability_threshold
is_stable_unchecked(emotion, current_time) ==
    current_time - consecutive_emotions[emotion] >= 0
is_stable_strict(emotion, current_time) ==
    current_time - consecutive_emotions[emotion] > Seconds(STABILITY_THRESHOLD)
is_stable(emotion, current_time) ==
    current_time - consecutive_emotions[emotion] >= Seconds(STABILITY_THRESHOLD)

\* should_give_compliment: <<decision, consecutive_emotions afterwards>>
should_give_compliment_tracks_first(emotion, confidence, current_time) ==
    IF cooldown_blocks(current_time) THEN <<FALSE, consecutive_emotions>>
    ELSE IF emotion \notin Tracked THEN <<FALSE, start_tracking(emotion, current_time)>>
    ELSE IF low_confidence(confidence) THEN <<FALSE, consecutive_emotions>>
    ELSE IF is_stable(emotion, current_time) THEN <<TRUE, consecutive_emotions>>
    ELSE <<FALSE, consecutive_emotions>>
should_give_compliment(emotion, confidence, current_time) ==
    IF cooldown_blocks(current_time) THEN <<FALSE, consecutive_emotions>>
    ELSE IF low_confidence(confidence) THEN <<FALSE, consecutive_emotions>>
    ELSE IF emotion \notin Tracked THEN <<FALSE, start_tracking(emotion, current_time)>>
    ELSE IF is_stable(emotion, current_time) THEN <<TRUE, consecutive_emotions>>
    ELSE <<FALSE, consecutive_emotions>>

\* COMPLIMENTS.get(emotion, COMPLIMENTS['neutral'])
Catalog_default_happy(emotion) ==
    IF emotion \in DOMAIN catalog THEN catalog[emotion] ELSE catalog["happy"]
Catalog(emotion) ==
    IF emotion \in DOMAIN catalog THEN catalog[emotion] ELSE catalog["neutral"]

\* COMPLIMENTS['neutral'] is evaluated for every call (KeyError when the
\* key is missing); random.choice raises IndexError on an empty list
lookup_never_raises(emotion) == FALSE
lookup_raises(emotion) ==
    \/ "neutral" \notin DOMAIN catalog
    \/ Catalog(emotion) = {}

\* an emotion argument that is not hashable (a list): the test
\* "emotion not in self.consecutive_emotions" raises TypeError
Unhashable == "[unhashable]"
Raised == <<"raised">>
raises(emotion, confidence, current_time) ==
    /\ ~cooldown_blocks(current_time)
    /\ ~low_confidence(confidence)
    /\ emotion = Unhashable

\* except Exception as e: ... return None
catch_nothing(outcome) ==
    outcome
catch(outcome) ==
    IF outcome = Raised THEN None ELSE outcome

\* self.consecutive_emotions.clear()
keep_tracking ==
    consecutive_emotions
reset_tracking ==
    EmptyMap

\* clock readings a call that started at t can make later on
Later(t) == {T0 + i : i \in Instants} \cap (t .. t + MaxLatency)

\* what a give_compliment call does and returns
give_compliment_call(emotion, confidence) ==
    LET d == should_give_compliment(emotion, confidence, clock)
    IN  /\ IF raises(emotion, confidence, clock)
           THEN /\ ret' = catch(Raised)
                /\ UNCHANGED <<clock, last_compliment_time, consecutive_emotions,
                               speech_queue, compliment_times>>
           ELSE IF ~d[1]
           THEN /\ ret' = None
                /\ consecutive_emotions' = d[2]
                /\ UNCHANGED <<clock, last_compliment_time, speech_queue, compliment_times>>
           ELSE IF lookup_raises(emotion)
           THEN /\ ret' = catch(Raised)
                /\ UNCHANGED <<clock, last_compliment_time, consecutive_emotions,
                               speech_queue, compliment_times>>
           ELSE \E compliment \in Catalog(emotion), t2 \in Later(clock) :
                /\ clock' = t2
                /\ last_compliment_time' = t2
                /\ consecutive_emotions' = reset_tracking
                /\ speech_queue' = speak_async(compliment, speech_queue)[2]
                /\ ret' = catch(compliment)
                /\ compliment_times' = Append(compliment_times, clock)
        /\ UNCHANGED <<last_no_face_message_time, last_emotion_change_time,
                       available, is_running, worker, speech, detected, settings, history>>

give_compliment(emotion, confidence) ==
    /\ op' = "give_compliment"
    /\ args' = <<emotion, confidence>>
    /\ give_compliment_call(emotion, confidence)
    /\ script' = Follow("give_compliment", <<emotion, confidence>>, clock, ret')

\* current_time - self.last_no_face_message_time < NO_FACE_COOLDOWN
no_face_blocks_wrong_timer(current_time) ==
    current_time - last_compliment_time < Seconds(NO_FACE_COOLDOWN)
no_face_blocks_wrong_constant(current_time) ==
    current_time - last_no_face_message_time < Seconds(COMPLIMENT_COOLDOWN)
no_face_blocks(current_time) ==
    current_time - last_no_face_message_time < Seconds(NO_FACE_COOLDOWN)

handle_no_face_detected_resets ==
    /\ op' = "handle_no_face_detected"
    /\ args' = <<>>
    /\ IF no_face_blocks(clock)
       THEN /\ ret' = None
            /\ UNCHANGED <<last_no_face_message_time, speech_queue>>
       ELSE \E message \in NoFaceMessages :
            /\ last_no_face_message_time' = clock
            /\ speech_queue' = speak_async(message, speech_queue)[2]
            /\ ret' = message
    /\ consecutive_emotions' = EmptyMap
    /\ script' = Follow("handle_no_face_detected", <<>>, clock, ret')
    /\ UNCHANGED <<clock, last_compliment_time,
                   last_emotion_change_time, available, is_running, worker,
                   compliment_times, speech, detected, settings, history>>
handle_no_face_detected ==
    /\ op' = "handle_no_face_detected"
    /\ args' = <<>>
    /\ IF no_face_blocks(clock)
       THEN /\ ret' = None
            /\ UNCHANGED <<last_no_face_message_time, speech_queue>>
       ELSE \E message \in NoFaceMessages :
            /\ last_no_face_message_time' = clock
            /\ speech_queue' = speak_async(message, speech_queue)[2]
            /\ ret' = message
    /\ script' = Follow("handle_no_face_detected", <<>>, clock, ret')
    /\ UNCHANGED <<clock, last_compliment_time, consecutive_emotions,
                   last_emotion_change_time, available, is_running, worker,
                   compliment_times, speech, detected, settings, history>>

\* update_emotion_tracking: consecutive_emotions afterwards
tracking_after_restarts(emotion, confidence, current_time) ==
    IF low_confidence(confidence) THEN EmptyMap
    ELSE [l \in {emotion} |-> current_time]
tracking_after(emotion, confidence, current_time) ==
    IF low_confidence(confidence) THEN EmptyMap
    ELSE LET m == IF emotion \notin Tracked
                  THEN [l \in {emotion} |-> current_time]
                  ELSE consecutive_emotions
             keep == {l \in DOMAIN m :
                        ~(l # emotion /\ current_time - m[l] > Seconds(PRUNE_AGE))}
         IN  [l \in keep |-> m[l]]

\* what an update_emotion_tracking call does
update_emotion_tracking_call(emotion, confidence) ==
    /\ ret' = None
    /\ consecutive_emotions' = tracking_after(emotion, confidence, clock)
    /\ last_emotion_change_time' =
          IF ~low_confidence(confidence) /\ emotion \notin Tracked
          THEN clock ELSE last_emotion_change_time
    /\ UNCHANGED <<clock, last_compliment_time, last_no_face_message_time,
                   tts, compliment_times, speech, detected, settings, history>>

update_emotion_tracking(emotion, confidence) ==
    /\ op' = "update_emotion_tracking"
    /\ args' = <<emotion, confidence>>
    /\ update_emotion_tracking_call(emotion, confidence)
    /\ script' = Follow("update_emotion_tracking", <<emotion, confidence>>, clock, None)

\* time passes between two calls of the frame loop
Tick ==
    /\ \E i \in Instants : T0 + i > clock /\ clock' = T0 + i
    /\ op' = "tick"
    /\ args' = <<>>
    /\ ret' = None
    /\ UNCHANGED <<feedback, tts, compliment_times, script, speech, detected, settings, history>>

\* ------------------------------------------------------------------------
Init ==
    /\ clock = T0
    /\ last_compliment_time = 0
    /\ last_no_face_message_time = 0
    /\ consecutive_emotions = EmptyMap
    /\ last_emotion_change_time = T0
    /\ available = FALSE
    /\ is_running = TRUE
    /\ speech_queue = <<>>
    /\ worker = "none"
    /\ op = "init"
    /\ args = <<>>
    /\ ret = None
    /\ compliment_times = <<>>
    /\ script = <<>>
    /\ frame = Idle
    /\ current = None
    /\ spoken = {}
    /\ dropped = {}
    /\ next_id = 1
    /\ detected = <<>>
    /\ catalog = COMPLIMENTS
    /\ AudioConfig_COMPLIMENT_COOLDOWN = COMPLIMENT_COOLDOWN
    /\ failed = {}
    /\ done = {}
    /\ late = {}
    /\ stop_pending = {}

Next ==
    \/ \E e \in Labels, c \in Confidences : give_compliment(e, c)
    \/ \E e \in Labels, c \in Confidences : update_emotion_tracking(e, c)
    \/ handle_no_face_detected
    \/ Tick

Spec == Init /\ [][Next]_vars

\* ------------------------------------------------------------------------
\* TTSManager called from the frame loop while its worker thread runs.
\* Texts are numbered in the order they are handed to speak_async.
\* ------------------------------------------------------------------------
Text(i) == <<"text", i>>
\* the flag a TTSManager call returned
Returned(flag) == <<flag>>
Urgent == Text(0)
Alive == worker \notin {"none", "stopped"}

\* speak_async up to the reading of qsize()
speak_async_begin(text) ==
    /\ frame = Idle
    /\ op' = "speak_async"
    /\ args' = <<text>>
    /\ IF text = None \/ ~available
       THEN /\ ret' = Returned(FALSE)
            /\ UNCHANGED <<frame, next_id>>
       ELSE /\ frame' = <<"speak_async", text, Len(speech_queue)>>
            /\ next_id' = next_id + 1
            /\ ret' = None
    /\ UNCHANGED <<clock, feedback, tts, compliment_times, script,
                   current, spoken, dropped, detected, settings, history>>

\* speak_async from the clearing of the queue to its return
speak_async_end ==
    /\ frame[1] = "speak_async"
    /\ LET cleared == backlog(frame[3])
           r == put_nowait(frame[2], IF cleared THEN <<>> ELSE speech_queue)
       IN  /\ speech_queue' = r[2]
           /\ dropped' = IF cleared THEN dropped \cup Range(speech_queue) ELSE dropped
           /\ ret' = Returned(r[1])
    /\ frame' = Idle
    /\ UNCHANGED <<clock, feedback, available, is_running, worker,
                   op, args, compliment_times, script, current, spoken, next_id, detected, settings, history>>

\* speak_immediate up to self.engine.say(text)
speak_immediate_begin(text) ==
    /\ frame = Idle
    /\ op' = "speak_immediate"
    /\ args' = <<text>>
    /\ IF ~available \/ text = None
       THEN ret' = Returned(FALSE) /\ UNCHANGED frame
       ELSE ret' = None /\ frame' = <<"speak_immediate", text>>
    /\ UNCHANGED <<clock, feedback, tts, compliment_times, script,
                   current, spoken, dropped, next_id, detected, settings, history>>

\* self.engine.runAndWait() returns or raises
speak_immediate_end ==
    /\ frame[1] = "speak_immediate"
    /\ frame' = Idle
    /\ ret' \in {Returned(TRUE), Returned(FALSE)}
    /\ UNCHANGED <<clock, feedback, tts, op, args, compliment_times, script,
                   current, spoken, dropped, next_id, detected, settings, history>>

\* stop: self.is_running = False
stop_begin ==
    /\ frame = Idle
    /\ op' = "stop"
    /\ args' = <<>>
    /\ ret' = None
    /\ is_running' = FALSE
    /\ frame' = <<"stop">>
    /\ stop_pending' = stop_pending \cup Range(speech_queue)
    /\ UNCHANGED <<clock, feedback, available, speech_queue, worker,
                   compliment_times, script, current, spoken, dropped, next_id,
                   detected, settings, failed, done, late>>

\* stop: self.clear_queue(), up to worker_thread.join(timeout=2.0)
stop_clear ==
    /\ frame = <<"stop">>
    /\ speech_queue' = <<>>
    /\ dropped' = dropped \cup Range(speech_queue)
    /\ frame' = IF Alive THEN <<"join">> ELSE Idle
    /\ UNCHANGED <<clock, feedback, available, is_running, worker,
                   op, args, ret, compliment_times, script,
                   current, spoken, next_id, detected, settings, history>>

\* the join returns: the worker has ended or two seconds have passed
stop_end ==
    /\ frame = <<"join">>
    /\ frame' = Idle
    /\ UNCHANGED <<clock, feedback, tts, op, args, ret, compliment_times, script,
                   current, spoken, dropped, next_id, detected, settings, history>>

\* while self.is_running
loop_condition_always ==
    TRUE
loop_condition ==
    is_running

worker_loop ==
    /\ worker = "idle"
    /\ worker' = IF loop_condition THEN "waiting" ELSE "stopped"
    /\ UNCHANGED <<clock, feedback, available, is_running, speech_queue,
                   op, args, ret, compliment_times, script, speech, detected, settings, history>>

\* self.speech_queue.get(timeout=1.0): a text, or queue.Empty after a second
worker_get ==
    /\ worker = "waiting"
    /\ IF speech_queue = <<>>
       THEN /\ worker' = "idle"
            /\ UNCHANGED <<speech_queue, current, spoken, done, late>>
       ELSE LET text == Head(speech_queue)
            IN  /\ speech_queue' = Tail(speech_queue)
                /\ IF text # None /\ available
                   THEN /\ worker' = "speaking"
                        /\ current' = text
                        /\ spoken' = spoken \cup {text}
                        /\ late' = IF is_running THEN late ELSE late \cup {text}
                        /\ UNCHANGED done
                   ELSE /\ worker' = "idle"
                        /\ done' = done \cup {text}
                        /\ UNCHANGED <<current, spoken, late>>
    /\ UNCHANGED <<clock, feedback, available, is_running,
                   op, args, ret, compliment_times, script, frame, dropped, next_id,
                   detected, settings, failed, stop_pending>>

\* where the worker is after the speech call returned or raised:
\* "Don't stop the worker, just skip this speech"
after_speech_dies(outcome) ==
    IF outcome = "raised" THEN "stopped" ELSE "idle"
after_speech(outcome) ==
    "idle"

\* the speech call returns or raises; task_done()
worker_done ==
    /\ worker = "speaking"
    /\ \E outcome \in {"returned", "raised"} :
          /\ worker' = after_speech(outcome)
          /\ failed' = IF outcome = "raised" THEN failed \cup {current} ELSE failed
    /\ done' = done \cup {current}
    /\ current' = None
    /\ UNCHANGED <<clock, feedback, available, is_running, speech_queue,
                   op, args, ret, compliment_times, script, frame, spoken, dropped, next_id,
                   detected, settings, late, stop_pending>>

\* TTSManager.__init__: the worker is started when the engine initialises
InitTTS ==
    /\ clock = T0
    /\ last_compliment_time = 0
    /\ last_no_face_message_time = 0
    /\ consecutive_emotions = EmptyMap
    /\ last_emotion_change_time = T0
    /\ available \in BOOLEAN
    /\ is_running = TRUE
    /\ speech_queue = <<>>
    /\ worker = IF available THEN "idle" ELSE "none"
    /\ op = "init"
    /\ args = <<>>
    /\ ret = None
    /\ compliment_times = <<>>
    /\ script = <<>>
    /\ frame = Idle
    /\ current = None
    /\ spoken = {}
    /\ dropped = {}
    /\ next_id = 1
    /\ detected = <<>>
    /\ catalog = COMPLIMENTS
    /\ AudioConfig_COMPLIMENT_COOLDOWN = COMPLIMENT_COOLDOWN
    /\ failed = {}
    /\ done = {}
    /\ late = {}
    /\ stop_pending = {}

NextTTS ==
    \/ \E text \in {None} \cup {Text(i) : i \in {next_id} \cap (1..MaxTexts)} :
          speak_async_begin(text)
    \/ speak_async_end
    \/ \E text \in {None, Urgent} : speak_immediate_begin(text)
    \/ speak_immediate_end
    \/ stop_begin
    \/ stop_clear
    \/ stop_end
    \/ worker_loop
    \/ worker_get
    \/ worker_done

SpecTTS == InitTTS /\ [][NextTTS]_vars

\* the worker thread is scheduled, a speech call in progress returns, and
\* the bounded join returns
SpecTTSFair ==
    /\ InitTTS
    /\ [][NextTTS]_vars
    /\ WF_vars(worker_loop)
    /\ WF_vars(worker_get)
    /\ WF_vars(worker_done)
    /\ WF_vars(stop_clear)
    /\ WF_vars(stop_end)

\* ------------------------------------------------------------------------
\* The feedback manager called with arbitrary arguments: a label the
\* catalog lacks, an unhashable label, a speech sink that refuses.
\* ------------------------------------------------------------------------
LabelsAny == {"happy", "confused", Unhashable}
ConfidencesAny == {50, 90}

NextAny ==
    \/ \E e \in LabelsAny, c \in ConfidencesAny : give_compliment(e, c)
    \/ \E e \in LabelsAny \ {Unhashable}, c \in ConfidencesAny :
          update_emotion_tracking(e, c)
    \/ handle_no_face_detected
    \/ Tick

SpecAny == Init /\ [][NextAny]_vars

\* ------------------------------------------------------------------------
\* SimpleFER / EmotionAnalyzer (emotion_detector.py). A detection is the
\* list of faces the cascade found, each with its 'emotions' dict.
\* ------------------------------------------------------------------------
DetectorEmotions == {"happy", "sad"}
DetectorConfidences == {60, 95}
Face(emotion, confidence) == [l \in {emotion} |-> confidence]
Faces == {Face(e, c) : e \in DetectorEmotions, c \in DetectorConfidences}
Detections == UNION {[1..n -> Faces] : n \in 0..MaxFaces}

\* the same frame detected again: the faces are the same, the emotion of
\* each is the stored one or, when its 3 to 5 seconds are over, a new draw
Redetect(results) == [DOMAIN results -> Faces]

\* max(emotions.items(), key=lambda x: x[1]) as a one-entry dict
top_entry(emotions) ==
    LET best == CHOOSE l \in DOMAIN emotions :
                    \A o \in DOMAIN emotions : emotions[o] <= emotions[l]
    IN  [l \in {best} |-> emotions[best]]

\* top_emotion after its detect_emotions call returned results
highest_of_all_faces(results) ==
    IF results # <<>>
    THEN LET i == CHOOSE i \in DOMAIN results : \A j \in DOMAIN results :
                      top_entry(results[j])[CHOOSE l \in DOMAIN top_entry(results[j]) : TRUE]
                      <= top_entry(results[i])[CHOOSE l \in DOMAIN top_entry(results[i]) : TRUE]
         IN  top_entry(results[i])
    ELSE EmptyMap
first_face_emotion(results) ==
    IF results # <<>>
    THEN top_entry(results[1])
    ELSE EmptyMap

detect_emotions ==
    /\ frame = Idle
    /\ \E results \in Detections :
          /\ detected' = results
          /\ ret' = results
    /\ op' = "detect_emotions"
    /\ args' = <<>>
    /\ UNCHANGED <<clock, feedback, tts, compliment_times, script, speech,
                   settings, history>>

top_emotion ==
    /\ frame = Idle
    /\ \E results \in Detections :
          /\ detected' = results
          /\ ret' = first_face_emotion(results)
    /\ op' = "top_emotion"
    /\ args' = <<>>
    /\ UNCHANGED <<clock, feedback, tts, compliment_times, script, speech,
                   settings, history>>

\* analyze_frame: faces_data = self.detector.detect_emotions(frame)
analyze_frame_detect ==
    /\ frame = Idle
    /\ \E faces_data \in Detections :
          /\ detected' = faces_data
          /\ frame' = <<"analyze_frame", faces_data>>
    /\ op' = "analyze_frame"
    /\ args' = <<>>
    /\ ret' = None
    /\ UNCHANGED <<clock, feedback, tts, compliment_times, script,
                   current, spoken, dropped, next_id, settings, history>>

\* analyze_frame: top_emotion = self.detector.top_emotion(frame); return
analyze_frame_top ==
    /\ frame[1] = "analyze_frame"
    /\ \E results \in Redetect(frame[2]) :
          /\ detected' = results
          /\ ret' = <<frame[2], first_face_emotion(results)>>
    /\ frame' = Idle
    /\ UNCHANGED <<clock, feedback, tts, op, args, compliment_times, script,
                   current, spoken, dropped, next_id, settings, history>>

NextDetector ==
    \/ detect_emotions
    \/ top_emotion
    \/ analyze_frame_detect
    \/ analyze_frame_top

SpecDetector == Init /\ [][NextDetector]_vars

\* ------------------------------------------------------------------------
\* A frame loop that calls give_compliment only.
\* ------------------------------------------------------------------------
NextGiveOnly ==
    \/ \E e \in Labels, c \in Confidences : give_compliment(e, c)
    \/ Tick

SpecGiveOnly == Init /\ [][NextGiveOnly]_vars

\* ------------------------------------------------------------------------
\* Confidences outside [0, 1], next to the values they would be clamped to.
\* ------------------------------------------------------------------------
ConfidencesInvalid == {-10, 150}
ConfidencesClamp == ConfidencesInvalid \cup {0, 100}

NextClamp ==
    \/ \E e \in Labels, c \in ConfidencesClamp : give_compliment(e, c)
    \/ \E e \in Labels, c \in ConfidencesClamp : update_emotion_tracking(e, c)
    \/ Tick

SpecClamp == Init /\ [][NextClamp]_vars

\* ------------------------------------------------------------------------
\* stop as the last call of the frame loop: no speech is requested once
\* is_running is False.
\* ------------------------------------------------------------------------
NextStop ==
    \/ /\ is_running
       /\ \E text \in {None} \cup {Text(i) : i \in {next_id} \cap (1..MaxTexts)} :
              speak_async_begin(text)
    \/ speak_async_end
    \/ /\ is_running
       /\ \E text \in {None, Urgent} : speak_immediate_begin(text)
    \/ speak_immediate_end
    \/ stop_begin
    \/ stop_clear
    \/ stop_end
    \/ worker_loop
    \/ worker_get
    \/ worker_done

SpecStop == InitTTS /\ [][NextStop]_vars

\* ------------------------------------------------------------------------
\* HardwarePresets (config.py) applied while the feedback manager runs.
\* ------------------------------------------------------------------------
Presets == {"high_performance", "balanced", "performance_mode", "battery_saver"}

\* of the settings followed here only battery_saver assigns one
apply_preset(name) ==
    /\ op' = name
    /\ args' = <<>>
    /\ ret' = None
    /\ AudioConfig_COMPLIMENT_COOLDOWN' =
          IF name = "battery_saver" THEN BATTERY_SAVER_COOLDOWN
          ELSE AudioConfig_COMPLIMENT_COOLDOWN
    /\ UNCHANGED <<clock, feedback, tts, compliment_times, script, speech,
                   detected, catalog, history>>

LabelsPreset == {"happy"}
ConfidencesPreset == {90}

NextPreset ==
    \/ \E e \in LabelsPreset, c \in ConfidencesPreset : give_compliment(e, c)
    \/ \E e \in LabelsPreset, c \in ConfidencesPreset : update_emotion_tracking(e, c)
    \/ handle_no_face_detected
    \/ Tick
    \/ \E name \in Presets : apply_preset(name)

SpecPreset == Init /\ [][NextPreset]_vars

\* ------------------------------------------------------------------------
\* The feedback manager constructed over the catalog config.py defines,
\* complete or with an entry missing or empty.
\* ------------------------------------------------------------------------
Missing(k) == [l \in CatalogKeys \ {k} |-> COMPLIMENTS[l]]
Emptied(k) == [COMPLIMENTS EXCEPT ![k] = {}]
Catalogs == {COMPLIMENTS} \cup {Missing(k) : k \in CatalogKeys}
                         \cup {Emptied(k) : k \in CatalogKeys}

\* EmotionFeedbackManager.__init__ does not look at the catalog
InitCatalog ==
    /\ clock = T0
    /\ last_compliment_time = 0
    /\ last_no_face_message_time = 0
    /\ consecutive_emotions = EmptyMap
    /\ last_emotion_change_time = T0
    /\ available = FALSE
    /\ is_running = TRUE
    /\ speech_queue = <<>>
    /\ worker = "none"
    /\ op = "init"
    /\ args = <<>>
    /\ ret = None
    /\ compliment_times = <<>>
    /\ script = <<>>
    /\ frame = Idle
    /\ current = None
    /\ spoken = {}
    /\ dropped = {}
    /\ next_id = 1
    /\ detected = <<>>
    /\ catalog \in Catalogs
    /\ AudioConfig_COMPLIMENT_COOLDOWN = COMPLIMENT_COOLDOWN
    /\ failed = {}
    /\ done = {}
    /\ late = {}
    /\ stop_pending = {}

NextCatalog ==
    \/ \E e \in Labels, c \in ConfidencesPreset : give_compliment(e, c)
    \/ Tick

SpecCatalog == InitCatalog /\ [][NextCatalog]_vars

\* ------------------------------------------------------------------------
\* The frame loop over a TTS manager whose engine initialised or failed
\* to: feedback calls, the worker thread when there is one, and direct
\* speak_async calls when there is none.
\* ------------------------------------------------------------------------
NextSink ==
    \/ \E e \in LabelsPreset, c \in ConfidencesPreset : give_compliment(e, c)
    \/ handle_no_face_detected
    \/ Tick
    \/ ~available /\ \E text \in {None, Text(next_id)} : speak_async_begin(text)
    \/ worker_loop
    \/ worker_get
    \/ worker_done

SpecSink == InitTTS /\ [][NextSink]_vars

\* ------------------------------------------------------------------------
\* The frame loop running for ever: each frame reads the clock, reports
\* what it saw (update_emotion_tracking, or handle_no_face_detected when
\* there is no face) and asks for a compliment for what it saw. The code
\* compares time stamps with the clock only through their age, so the
\* clock is kept at T0 and the stamps are moved back instead, an age of
\* Horizon or more being kept as Horizon.
\* ------------------------------------------------------------------------
ElapseSteps == {5, 10}
LabelsLive == {"happy", "sad"}
ConfidencesLive == {50, 90}

Rebase(stamp, shift) ==
    IF stamp - shift < T0 - Horizon THEN T0 - Horizon ELSE stamp - shift

Elapse(d) ==
    /\ op \in {"init", "give_compliment", "handle_no_face_detected"}
    /\ LET shift == clock + d - T0
       IN  /\ clock' = T0
           /\ last_compliment_time' = Rebase(last_compliment_time, shift)
           /\ last_no_face_message_time' = Rebase(last_no_face_message_time, shift)
           /\ last_emotion_change_time' = Rebase(last_emotion_change_time, shift)
           /\ consecutive_emotions' =
                  [l \in Tracked |-> Rebase(consecutive_emotions[l], shift)]
           /\ compliment_times' =
                  IF compliment_times = <<>> THEN <<>>
                  ELSE << Rebase(compliment_times[Len(compliment_times)], shift) >>
    /\ op' = "tick"
    /\ args' = <<>>
    /\ ret' = None
    /\ script' = Off
    /\ UNCHANGED <<tts, speech, detected, settings, history>>

frame_update ==
    /\ op = "tick"
    /\ \/ \E e \in LabelsLive, c \in ConfidencesLive : update_emotion_tracking(e, c)
       \/ handle_no_face_detected

frame_give ==
    /\ op = "update_emotion_tracking"
    /\ give_compliment(args[1], args[2])

NextLive ==
    \/ \E d \in ElapseSteps : Elapse(d)
    \/ frame_update
    \/ frame_give

\* the frame loop never stops
SpecLive ==
    /\ Init
    /\ [][NextLive]_vars
    /\ WF_vars(\E d \in ElapseSteps : Elapse(d))
    /\ WF_vars(frame_update)
    /\ WF_vars(frame_give)

TypeOK ==
    /\ clock \in {T0 + i : i \in Instants}
    /\ DOMAIN consecutive_emotions \subseteq Labels

\* ------------------------------------------------------------------------
\* Properties
\* ------------------------------------------------------------------------
Qualifying == {c \in Confidences : c >= CONFIDENCE_FLOOR}
InCooldown == clock - last_compliment_time < Seconds(COMPLIMENT_COOLDOWN)
Age(l) == clock - consecutive_emotions[l]
Stable(l) == Age(l) >= Seconds(STABILITY_THRESHOLD)

\* C1 (cooldown monotonicity): any two give_compliment calls that return a
\* compliment, whatever update_emotion_tracking and handle_no_face_detected
\* calls lie between them, read clocks at least COMPLIMENT_COOLDOWN apart.
C1_CooldownMonotonicity ==
    \A i, j \in 1..Len(compliment_times) :
        i < j => compliment_times[j] - compliment_times[i] >= Seconds(COMPLIMENT_COOLDOWN)

\* two compliments exactly one cooldown apart, the tracking entry of the
\* second one made by update_emotion_tracking during the cooldown
C1_Witness ==
    /\ Len(compliment_times) = 2
    /\ compliment_times[2] - compliment_times[1] = Seconds(COMPLIMENT_COOLDOWN)
    /\ op = "give_compliment"
    /\ ret # None
    /\ last_no_face_message_time > compliment_times[1]
    /\ last_emotion_change_time > compliment_times[1]

\* C2 (stability requirement): a tracking entry carries the clock of the
\* call that created it and keeps it while it exists, and give_compliment
\* returns a compliment for a label only if the label has an entry that is
\* at least the stability threshold old; the call that first sights a label
\* returns None.
C2_Stability ==
    [][ /\ \A l \in DOMAIN consecutive_emotions' :
              IF l \in Tracked
              THEN consecutive_emotions'[l] = consecutive_emotions[l]
              ELSE consecutive_emotions'[l] = clock
        /\ \A e \in Labels, c \in Confidences :
              (ret' # None /\ give_compliment(e, c)) =>
                  /\ e \in Tracked
                  /\ clock >= consecutive_emotions[e] + Seconds(STABILITY_THRESHOLD)
      ]_vars

\* a qualifying call outside the cooldown for a label whose entry is
\* younger than the threshold: it returned None
C2_Witness ==
    /\ op = "give_compliment"
    /\ ret = None
    /\ args[2] \in Qualifying
    /\ ~InCooldown
    /\ args[1] \in Tracked
    /\ Age(args[1]) > 0
    /\ ~Stable(args[1])

\* C3 (rule 3): a give_compliment call outside the cooldown, with
\* qualifying confidence, for a label that has no tracking entry returns
\* None and leaves exactly the one entry {emotion: now}.
C3_TrackingReplaced ==
    [][ \A e \in Labels, c \in Qualifying :
          (give_compliment(e, c) /\ ~InCooldown /\ e \notin Tracked) =>
              /\ ret' = None
              /\ consecutive_emotions' = [l \in {e} |-> clock]
      ]_vars

\* C4 (single-slot tracking): consecutive_emotions never holds more than
\* one entry, and after a call that observed a qualifying label an entry,
\* if there is one, is that label's.
C4_SingleSlot ==
    /\ Cardinality(Tracked) <= 1
    /\ (op \in {"give_compliment", "update_emotion_tracking"}
            /\ args[2] \in Qualifying /\ Tracked # {})
          => Tracked = {args[1]}

\* C5 (rule 2): a give_compliment call outside the cooldown with confidence
\* below the floor returns None and leaves no tracking entry.
C5_LowConfidenceClears ==
    (op = "give_compliment" /\ args[2] < CONFIDENCE_FLOOR /\ ~InCooldown)
        => (ret = None /\ consecutive_emotions = EmptyMap)

\* C6 (confidence floor): give_compliment with confidence below the floor,
\* 0.0 included, returns None in every state.
C6_ConfidenceFloor ==
    (op = "give_compliment" /\ args[2] < CONFIDENCE_FLOOR) => ret = None

\* confidence 0.0 for a label that is stable, outside the cooldown: only
\* the floor stands between the call and a compliment
C6_Witness ==
    /\ op = "give_compliment"
    /\ args[2] = 0
    /\ ret = None
    /\ ~InCooldown
    /\ args[1] \in Tracked
    /\ Stable(args[1])

\* C7 (rule 4): outside the cooldown, with qualifying confidence, for a
\* tracked label: if the entry is at least the stability threshold old
\* (boundary included) give_compliment returns a message of
\* COMPLIMENTS[emotion], sets last_compliment_time to the clock and empties
\* the tracking; if the entry is younger it returns None and changes nothing.
C7_Emission ==
    [][ \A e \in Labels, c \in Qualifying :
          (~InCooldown /\ e \in Tracked /\ give_compliment(e, c)) =>
              IF Stable(e)
              THEN /\ ret' \in COMPLIMENTS[e]
                   /\ clock' >= clock
                   /\ last_compliment_time' = clock'
                   /\ consecutive_emotions' = EmptyMap
              ELSE /\ ret' = None
                   /\ UNCHANGED <<clock, feedback, tts>>
      ]_vars

\* a compliment returned by a call made exactly one stability threshold
\* after the entry was created (at construction time)
C7_Witness ==
    /\ op = "give_compliment"
    /\ ret \in COMPLIMENTS[args[1]]
    /\ compliment_times = <<T0 + Seconds(STABILITY_THRESHOLD)>>
    /\ last_compliment_time = clock
    /\ consecutive_emotions = EmptyMap

\* C8 (rule 1): a give_compliment call made while
\* now - last_compliment_time < COMPLIMENT_COOLDOWN returns None and changes
\* nothing, whatever its arguments; a call made exactly COMPLIMENT_COOLDOWN
\* after last_compliment_time is not blocked: it starts tracking an
\* untracked label and returns a compliment for a stable one.
C8_CooldownNoChange ==
    [][ \A e \in Labels, c \in Confidences :
          /\ (InCooldown /\ give_compliment(e, c)) =>
                 (ret' = None /\ UNCHANGED <<clock, feedback, tts>>)
          /\ (c \in Qualifying
                /\ clock - last_compliment_time = Seconds(COMPLIMENT_COOLDOWN)
                /\ give_compliment(e, c)) =>
                 IF e \notin Tracked THEN e \in DOMAIN consecutive_emotions'
                 ELSE (Stable(e) => ret' # None)
      ]_vars

\* a call blocked by nothing but the cooldown: qualifying confidence, for a
\* label that is tracked and stable
C8_Witness ==
    /\ op = "give_compliment"
    /\ ret = None
    /\ last_compliment_time > 0
    /\ InCooldown
    /\ args[2] \in Qualifying
    /\ args[1] \in Tracked
    /\ Stable(args[1])

C10_ScenarioA ==
    (script # Off /\ Calls(script) = ScenarioA) =>
        /\ Returns(script)[1] = None
        /\ Returns(script)[2] = None
        /\ Returns(script)[3] \in COMPLIMENTS["happy"]
        /\ Returns(script)[4] = None

\* C11 (scenario B): from the initial state give_compliment(sad, 0.5) at 0
\* returns None and leaves no label tracked; give_compliment(sad, 0.9) at
\* 0.1 s then creates the entry for sad with first sighting 0.1 s, not 0.
C11_ScenarioB ==
    /\ (script # Off /\ Len(script) = 1 /\ Calls(script)[1] = ScenarioB[1]) =>
          /\ Returns(script)[1] = None
          /\ consecutive_emotions = EmptyMap
    /\ (script # Off /\ Calls(script) = ScenarioB) =>
          /\ Returns(script) = <<None, None>>
          /\ consecutive_emotions = [l \in {"sad"} |-> T0 + 1]

C11_Witness ==
    /\ script # Off
    /\ Calls(script) = ScenarioB
    /\ "sad" \in Tracked

NoFaceAge == clock - last_no_face_message_time

\* C12 (no-face throttle): handle_no_face_detected returns None and changes
\* nothing when less than NO_FACE_COOLDOWN has passed since the last
\* no-face message; otherwise it returns one of the four fixed messages and
\* records the current time, which no other operation does; so two
\* consecutive no-face messages are at least NO_FACE_COOLDOWN apart.
C12_NoFaceThrottle ==
    [][ /\ handle_no_face_detected =>
            IF NoFaceAge < Seconds(NO_FACE_COOLDOWN)
            THEN /\ ret' = None
                 /\ UNCHANGED <<clock, feedback, tts, compliment_times>>
            ELSE /\ ret' \in NoFaceMessages
                 /\ last_no_face_message_time' = clock
                 /\ clock' = clock
        /\ last_no_face_message_time' # last_no_face_message_time =>
            /\ op' = "handle_no_face_detected"
            /\ ret' \in NoFaceMessages
            /\ last_no_face_message_time' - last_no_face_message_time
                  >= Seconds(NO_FACE_COOLDOWN)
      ]_vars

\* a call refused a tenth of a second before the cooldown of an earlier
\* no-face message ends
C12_Witness ==
    /\ op = "handle_no_face_detected"
    /\ ret = None
    /\ last_no_face_message_time > T0
    /\ NoFaceAge = Seconds(NO_FACE_COOLDOWN) - 1

\* C13 (scenario C): handle_no_face_detected at 0, 4 and 5.1 seconds after
\* construction returns a no-face message, None, a no-face message; the
\* initial last_no_face_message_time does not block the first one.
C13_ScenarioC ==
    /\ (script # Off /\ Len(script) >= 1 /\ IsPrefix(Calls(script), ScenarioC)) =>
          Returns(script)[1] \in NoFaceMessages
    /\ (script # Off /\ Len(script) >= 2 /\ IsPrefix(Calls(script), ScenarioC)) =>
          Returns(script)[2] = None
    /\ (script # Off /\ Calls(script) = ScenarioC) =>
          Returns(script)[3] \in NoFaceMessages

C13_Witness ==
    /\ script # Off
    /\ Calls(script) = ScenarioC
    /\ last_no_face_message_time = T0 + 51

\* C14 (independent timers): handle_no_face_detected, whatever it returns,
\* leaves consecutive_emotions and last_compliment_time unchanged;
\* give_compliment and update_emotion_tracking leave
\* last_no_face_message_time unchanged. (op' names the handler that took
\* the step.)
C14_IndependentTimers ==
    [][ /\ op' = "handle_no_face_detected" =>
            UNCHANGED <<consecutive_emotions, last_compliment_time>>
        /\ op' \in {"give_compliment", "update_emotion_tracking"} =>
            UNCHANGED last_no_face_message_time
      ]_vars

\* a no-face message given while a label is tracked and a compliment has
\* been given before
C14_Witness ==
    /\ op = "handle_no_face_detected"
    /\ ret \in NoFaceMessages
    /\ Tracked # {}
    /\ last_compliment_time > 0
    /\ last_no_face_message_time = clock

\* C15 (bounded, non-blocking queue with wholesale drop): the speech queue
\* never holds more than QUEUE_MAXSIZE texts; a speak_async call that has
\* read its queue size can always complete; when it found more than
\* QUEUE_BACKLOG texts pending, the queue holds only the new text after the
\* call; a text cleared from the queue is never spoken.
C15_BoundedQueue ==
    /\ [](Len(speech_queue) <= QUEUE_MAXSIZE)
    /\ [](frame[1] = "speak_async" => ENABLED speak_async_end)
    /\ [](dropped \cap (spoken \cup {current}) = {})
    /\ [][ (speak_async_end /\ frame[3] > QUEUE_BACKLOG) =>
             /\ speech_queue' = <<frame[2]>>
             /\ ret' = Returned(TRUE)
             /\ Range(speech_queue) \subseteq dropped'
       ]_vars

\* the fifth text was handed over while four were pending: it is alone in
\* the queue and the older ones are gone, one of them taken by the worker
\* between the size check and the clearing
C15_Witness ==
    /\ op = "speak_async"
    /\ frame = Idle
    /\ speech_queue = <<Text(5)>>
    /\ {Text(2), Text(3), Text(4)} \subseteq dropped
    /\ current = Text(1)

InProgress ==
    (IF worker = "speaking" THEN 1 ELSE 0) + (IF frame[1] = "speak_immediate" THEN 1 ELSE 0)

\* C16 (no overlapping utterances): at most one worker thread exists and
\* at most one speech call, the worker's or speak_immediate's, is in
\* progress at any time; the worker takes the next text only when no speech
\* call of its own is in progress.
C16_NoOverlap ==
    /\ [](InProgress <= 1)
    /\ [](worker = "speaking" <=> current # None)
    /\ [][worker_get => current = None]_vars

\* C17 (worker shutdown): stop sets is_running to False and empties the
\* queue before it waits for the worker, and is_running stays False; once
\* is_running is False a started worker eventually ends, given that a
\* speech call in progress returns; the bounded join always returns, also
\* while the worker has not ended.
C17_WorkerShutdown ==
    /\ [][stop_begin => is_running' = FALSE]_vars
    /\ [][stop_clear => (speech_queue' = <<>> /\ frame' \in {<<"join">>, Idle})]_vars
    /\ [][~is_running => ~is_running']_vars
    /\ ((~is_running /\ Alive) ~> (worker = "stopped"))
    /\ ((frame \in {<<"stop">>, <<"join">>}) ~> (frame = Idle))

\* stop has returned while the worker is still inside a speech call
C17_Witness ==
    /\ op = "stop"
    /\ frame = Idle
    /\ ~is_running
    /\ worker = "speaking"

\* C18 (unknown label): a give_compliment call for a label that is not a
\* key of COMPLIMENTS never raises, and when it emits, the message is one
\* of COMPLIMENTS['neutral'].
C18_UnknownLabel ==
    [][ \A e \in LabelsAny \ DOMAIN COMPLIMENTS, c \in ConfidencesAny :
          give_compliment(e, c) =>
              /\ ret' # Raised
              /\ ret' # None => ret' \in COMPLIMENTS["neutral"]
      ]_vars

C18_Witness ==
    /\ op = "give_compliment"
    /\ args[1] = "confused"
    /\ ret \in COMPLIMENTS["neutral"]

\* C19 (no error propagation): give_compliment returns None or a catalog
\* message and handle_no_face_detected returns None or a no-face message,
\* whatever the arguments and the state, also when the call fails inside
\* or the speech sink refuses the message; neither raises.
C19_NoErrorPropagation ==
    [][ /\ \A e \in LabelsAny, c \in ConfidencesAny :
            give_compliment(e, c) =>
                /\ ret' # Raised
                /\ ret' = None \/ ret' \in UNION {COMPLIMENTS[k] : k \in DOMAIN COMPLIMENTS}
        /\ handle_no_face_detected =>
                /\ ret' # Raised
                /\ ret' = None \/ ret' \in NoFaceMessages
      ]_vars

\* a call that failed on its unhashable label, outside the cooldown and
\* with a qualifying confidence, returned None
C19_Witness ==
    /\ op = "give_compliment"
    /\ args = <<Unhashable, 90>>
    /\ ~InCooldown
    /\ ret = None

\* the dominant emotion handed on by the last top_emotion or analyze_frame
Handed == op \in {"top_emotion", "analyze_frame"} /\ frame = Idle
Top == IF op = "analyze_frame" THEN ret[2] ELSE ret
Confidence(emotions) == emotions[CHOOSE l \in DOMAIN emotions : TRUE]
Best(emotions) ==
    {[l \in {k} |-> emotions[k]] :
        k \in {l \in DOMAIN emotions : \A o \in DOMAIN emotions : emotions[o] <= emotions[l]}}

\* C20 as claimed: the emotion handed on is a highest-confidence emotion
\* among all faces of the detection, and is empty exactly when no face was
\* detected.
C20_DominantOfAllFaces ==
    Handed =>
        IF detected = <<>>
        THEN DOMAIN Top = {}
        ELSE /\ \E i \in DOMAIN detected : Top \in Best(detected[i])
             /\ \A j \in DOMAIN detected : \A b \in Best(detected[j]) :
                    Confidence(b) <= Confidence(Top)

\* C20 (dominant emotion, amended): the emotion handed on is the
\* highest-confidence emotion of the first face of the detection made by
\* top_emotion itself, and is empty exactly when no face was detected.
C20_DominantOfFirstFace ==
    Handed =>
        IF detected = <<>>
        THEN DOMAIN Top = {}
        ELSE Top \in Best(detected[1])

\* two faces, the second more confident than the first, and emotions
\* drawn anew between the two detections of analyze_frame
C20_Witness ==
    /\ op = "analyze_frame"
    /\ frame = Idle
    /\ Len(detected) = 2
    /\ Confidence(detected[2]) > Confidence(detected[1])
    /\ Top = detected[1]
    /\ ret[1] # detected

\* C22 (configured minimum confidence): no compliment is given for a
\* sighting whose confidence is below MIN_CONFIDENCE_FOR_COMPLIMENT.
C22_ConfiguredMinimum ==
    [][ \A e \in Labels, c \in Confidences :
          (give_compliment(e, c) /\ c < MIN_CONFIDENCE_FOR_COMPLIMENT) => ret' = None
      ]_vars

\* C30 (no tracking during cooldown): when only give_compliment is called,
\* any two returned compliments are at least COMPLIMENT_COOLDOWN plus the
\* stability threshold apart, and no label is tracked while the cooldown
\* is running.
C30_GiveOnlySpacing ==
    /\ \A i, j \in 1..Len(compliment_times) :
          i < j => compliment_times[j] - compliment_times[i]
                     >= Seconds(COMPLIMENT_COOLDOWN) + Seconds(STABILITY_THRESHOLD)
    /\ (compliment_times # <<>> /\ InCooldown) => Tracked = {}

\* two compliments exactly nine seconds apart
C30_Witness ==
    /\ Len(compliment_times) = 2
    /\ compliment_times[2] - compliment_times[1]
          = Seconds(COMPLIMENT_COOLDOWN) + Seconds(STABILITY_THRESHOLD)

Clamp(confidence) ==
    IF confidence < 0 THEN 0 ELSE IF confidence > 100 THEN 100 ELSE confidence

\* C23 (invalid confidence): a give_compliment or update_emotion_tracking
\* call with a confidence outside [0, 1] does not raise, and what it
\* returns and does is what the same call with the clamped confidence can
\* return and do, and the other way round.
C23_ClampedConfidence ==
    [][ \A e \in Labels, c \in ConfidencesInvalid :
          /\ give_compliment(e, c) =>
                (ret' # Raised /\ give_compliment_call(e, Clamp(c)))
          /\ give_compliment(e, Clamp(c)) => give_compliment_call(e, c)
          /\ update_emotion_tracking(e, c) =>
                (ret' # Raised /\ update_emotion_tracking_call(e, Clamp(c)))
          /\ update_emotion_tracking(e, Clamp(c)) => update_emotion_tracking_call(e, c)
      ]_vars

\* a compliment returned for a sighting of confidence 1.5
C23_Witness ==
    /\ op = "give_compliment"
    /\ args[2] = 150
    /\ ret \in COMPLIMENTS[args[1]]

\* C27 (the queue never fills): the queue holds at most QUEUE_BACKLOG + 1
\* texts; speak_async returns True for every text that is not blank while
\* the TTS is available, and False, with the queue unchanged, only for a
\* blank text or an unavailable TTS.
C27_QueueNeverFills ==
    /\ [](Len(speech_queue) <= QUEUE_BACKLOG + 1)
    /\ [][ /\ speak_async_end => ret' = Returned(TRUE)
           /\ \A i \in 1..MaxTexts :
                (speak_async_begin(Text(i)) /\ available) => ret' # Returned(FALSE)
           /\ \A text \in {None} \cup {Text(i) : i \in 1..MaxTexts} :
                (speak_async_begin(text) /\ ret' = Returned(FALSE)) =>
                    /\ text = None \/ ~available
                    /\ UNCHANGED speech_queue
       ]_vars

\* four texts pending after a call that returned True
C27_Witness ==
    /\ op = "speak_async"
    /\ frame = Idle
    /\ ret = Returned(TRUE)
    /\ Len(speech_queue) = QUEUE_BACKLOG + 1

\* C25 (the worker survives speech errors): when the speech call raises,
\* the worker still marks the text done and is back at the head of its
\* loop, with is_running and the queue untouched; it ends only when
\* is_running is False; and a text queued after a failure is still spoken
\* or cleared, unless the worker has been stopped.
C25_WorkerSurvives ==
    /\ [][worker_done => /\ worker' = "idle"
                         /\ current \in done'
                         /\ UNCHANGED <<is_running, speech_queue>>]_vars
    /\ [][(worker # "stopped" /\ worker' = "stopped") => ~is_running]_vars
    /\ \A i \in 1..MaxTexts :
          (failed # {} /\ Text(i) \in Range(speech_queue))
              ~> (Text(i) \in spoken \cup dropped \/ worker = "stopped")

\* the speech call for the first text raised and the worker is speaking
\* the second
C25_Witness ==
    /\ failed = {Text(1)}
    /\ Text(1) \in done
    /\ current = Text(2)
    /\ worker = "speaking"
    /\ is_running

\* C28 (bounded speech after stop): once stop has set is_running to False
\* the worker starts at most one more utterance, of a text that was queued
\* at that moment and that it took before stop cleared the queue; no other
\* text queued at that moment is ever spoken; after that utterance the
\* worker takes nothing more.
C28_BoundedSpeechAfterStop ==
    /\ [](Cardinality(late) <= 1)
    /\ [](late \subseteq stop_pending)
    /\ [](late \cap dropped = {})
    /\ []((stop_pending \cap (spoken \cup {current})) \subseteq late)
    /\ [][(worker_get /\ late # {}) => UNCHANGED <<speech_queue, spoken>>]_vars

\* stop found two texts queued; the worker took the first between the
\* clearing of is_running and the clearing of the queue and speaks it, the
\* second was cleared
C28_Witness ==
    /\ ~is_running
    /\ stop_pending = {Text(1), Text(2)}
    /\ late = {Text(1)}
    /\ current = Text(1)
    /\ Text(2) \in dropped

\* C21 (immutable configuration): whatever presets have been applied,
\* give_compliment enforces the cooldown COMPLIMENT_COOLDOWN and the
\* stability threshold, handle_no_face_detected enforces NO_FACE_COOLDOWN,
\* the catalog does not change, and no operation of the two managers
\* assigns AudioConfig.COMPLIMENT_COOLDOWN.
C21_ImmutableConfiguration ==
    [][ /\ \A e \in LabelsPreset, c \in ConfidencesPreset :
            give_compliment(e, c) =>
                (ret' # None <=> (~InCooldown /\ e \in Tracked /\ Stable(e)))
        /\ handle_no_face_detected =>
                (ret' # None <=> NoFaceAge >= Seconds(NO_FACE_COOLDOWN))
        /\ catalog' = catalog
        /\ AudioConfig_COMPLIMENT_COOLDOWN' # AudioConfig_COMPLIMENT_COOLDOWN =>
                op' = "battery_saver"
      ]_vars

\* battery_saver was applied, and a compliment is returned less than its
\* fifteen seconds after the previous one
C21_Witness ==
    /\ AudioConfig_COMPLIMENT_COOLDOWN = BATTERY_SAVER_COOLDOWN
    /\ op = "give_compliment"
    /\ ret # None
    /\ Len(compliment_times) = 2
    /\ compliment_times[2] - compliment_times[1] < Seconds(BATTERY_SAVER_COOLDOWN)

C29_DegradedMode ==
    [][ /\ ~available =>
              /\ worker' = "none"
              /\ speech_queue' = <<>>
              /\ op' = "speak_async" => ret' = Returned(FALSE)
        /\ \A e \in LabelsPreset, c \in ConfidencesPreset :
              give_compliment(e, c) =>
                  /\ ret' # None <=> (~InCooldown /\ e \in Tracked /\ Stable(e))
                  /\ ret' # None => (last_compliment_time' = clock' /\ clock' >= clock)
                  /\ ret' = None => last_compliment_time' = last_compliment_time
        /\ handle_no_face_detected =>
                  /\ ret' # None <=> NoFaceAge >= Seconds(NO_FACE_COOLDOWN)
                  /\ ret' # None => last_no_face_message_time' = clock
                  /\ ret' = None => last_no_face_message_time' = last_no_face_message_time
        /\ available' = available
      ]_vars

C29_Witness ==
    /\ ~available
    /\ op = "give_compliment"
    /\ ret # None
    /\ last_compliment_time = clock
    /\ last_no_face_message_time > 0
    /\ speech_queue = <<>>

\* the frame loop is reporting emotion e with enough confidence
Steady(e) ==
    \/ op = "tick"
    \/ /\ op \in {"update_emotion_tracking", "give_compliment"}
       /\ args[1] = e
       /\ args[2] >= CONFIDENCE_FLOOR
Emitted == op = "give_compliment" /\ ret # None

\* C26 (liveness of compliments): if from some point on every frame
\* reports the same emotion with a confidence of at least 0.6 and asks for
\* its compliment, the clock advancing at every frame, then compliments
\* are returned again and again.
C26_ComplimentsKeepComing ==
    \A e \in LabelsLive : (<>[]Steady(e)) => []<>Emitted

C26_Witness ==
    /\ Emitted
    /\ args = <<"happy", 90>>
    /\ Len(compliment_times) = 2
    /\ compliment_times[2] - compliment_times[1] >= Seconds(COMPLIMENT_COOLDOWN)
    /\ compliment_times[2] - compliment_times[1] < Horizon
====
